---- MODULE Spec2Model ----
(***************************************************************************)
(* Trading Day Picks (submit version): the pick selection engine.          *)
(*                                                                         *)
(* The page fetches ./data/latest.json, scores every instrument with      *)
(* enough history, ranks the results, picks BUY_N instruments under a     *)
(* correlation cap and persists the top list, the buy list and the        *)
(* selection streaks in localStorage.                                     *)
(*                                                                         *)
(* Numbers.  A JavaScript number is modelled as a fixed-point integer in  *)
(* units of 1/SCALE, or one of the IEEE special values NaN, +Infinity and *)
(* -Infinity.  Squared quantities (variance, covariance) are carried in   *)
(* units of 1/SCALE^2 so that small returns keep their precision.  null   *)
(* (the "unavailable" marker of the helpers) is the value Null.  A field  *)
(* that is missing from a bar reads as undefined, which every use in the  *)
(* code converts to NaN, so it is modelled as NaN.                        *)
(***************************************************************************)
EXTENDS Integers, Sequences, FiniteSets, TLC

\* ---------------------------------------------------------------------
\* Configuration constants of the program
\* ---------------------------------------------------------------------
BUY_N == 4
SHOW_N == 10
MIN_HISTORY == 220
CORR_LOOKBACK == 60
LATE_WINDOW_DAYS == 7
SCALE == 10000
\* CORR_MAX = 0.85 in units of 1/SCALE
CORR_MAX == (85 * SCALE) \div 100

\* ---------------------------------------------------------------------
\* IEEE special values and null
\* ---------------------------------------------------------------------
PInf == 2000000000
NInf == -PInf
NaN == PInf + 1
Null == PInf + 2

IsFinite(x) == x > NInf /\ x < PInf

Neg(a) == IF a = NaN THEN NaN ELSE -a

Add(a, b) ==
  IF a = NaN \/ b = NaN THEN NaN
  ELSE IF a = PInf THEN (IF b = NInf THEN NaN ELSE PInf)
  ELSE IF a = NInf THEN (IF b = PInf THEN NaN ELSE NInf)
  ELSE IF b = PInf \/ b = NInf THEN b
  ELSE a + b

Sub(a, b) == Add(a, Neg(b))

Sign(a) == IF a > 0 THEN 1 ELSE IF a < 0 THEN -1 ELSE 0

\* product of two numbers, both in the same units, result unscaled
\* (units multiply): used for squares and cross products
MulRaw(a, b) ==
  IF a = NaN \/ b = NaN THEN NaN
  ELSE IF ~IsFinite(a) \/ ~IsFinite(b)
       THEN (IF a = 0 \/ b = 0 THEN NaN
             ELSE IF Sign(a) * Sign(b) > 0 THEN PInf ELSE NInf)
  ELSE a * b

\* divide a finite-or-special number by a plain positive integer count
DivInt(a, n) == IF IsFinite(a) THEN a \div n ELSE a

\* a * b for two numbers in units of 1/SCALE
Mul(a, b) == DivInt(MulRaw(a, b), SCALE)

\* a / b for two numbers in the same units, result in units of 1/SCALE
Div(a, b) ==
  IF a = NaN \/ b = NaN THEN NaN
  ELSE IF ~IsFinite(a)
       THEN (IF ~IsFinite(b) THEN NaN
             ELSE IF (Sign(a) > 0) = (b >= 0) THEN PInf ELSE NInf)
  ELSE IF ~IsFinite(b) THEN 0
  ELSE IF b = 0
       THEN (IF a = 0 THEN NaN ELSE IF a > 0 THEN PInf ELSE NInf)
  ELSE (a * SCALE) \div b

\* JavaScript relational operators: every comparison with NaN is false
Gt(a, b) == a # NaN /\ b # NaN /\ a > b
Lt(a, b) == a # NaN /\ b # NaN /\ a < b
Le(a, b) == a # NaN /\ b # NaN /\ a <= b

MathMax(a, b) == IF a = NaN \/ b = NaN THEN NaN ELSE IF a > b THEN a ELSE b
MathMin(a, b) == IF a = NaN \/ b = NaN THEN NaN ELSE IF a < b THEN a ELSE b
MathAbs(a) == IF a = NaN THEN NaN ELSE IF a < 0 THEN -a ELSE a

RECURSIVE ISqrtBetween(_, _, _)
ISqrtBetween(n, lo, hi) ==
  IF lo >= hi THEN lo
  ELSE LET mid == (lo + hi + 1) \div 2
       IN IF mid * mid <= n THEN ISqrtBetween(n, mid, hi)
          ELSE ISqrtBetween(n, lo, mid - 1)

\* Math.sqrt of a number in units of 1/SCALE^2, result in units of 1/SCALE
MathSqrt(a) ==
  IF a = NaN \/ a < 0 THEN NaN
  ELSE IF a = PInf THEN PInf
  ELSE ISqrtBetween(a, 0, 46340)

\* ---------------------------------------------------------------------
\* Generic helpers
\* ---------------------------------------------------------------------
last(arr) == IF Len(arr) = 0 THEN NaN ELSE arr[Len(arr)]

\* the sum arr[lo] + ... + arr[hi] of a loop "s += arr[i]"; the terms are
\* added pairwise by halves, which gives the same value as left to right
\* (integer addition is associative, NaN and opposite infinities absorb)
RECURSIVE SumRange(_, _, _)
SumRange(arr, lo, hi) ==
  IF lo > hi THEN 0
  ELSE IF lo = hi THEN Add(0, arr[lo])
  ELSE LET mid == (lo + hi) \div 2
       IN Add(SumRange(arr, lo, mid), SumRange(arr, mid + 1, hi))

SumFrom(arr, i) == SumRange(arr, i, Len(arr))

sma(arr, n) ==
  IF Len(arr) < n THEN Null
  ELSE DivInt(SumFrom(arr, Len(arr) - n + 1), n)

ret(arr, n) ==
  IF Len(arr) <= n THEN Null
  ELSE LET now == arr[Len(arr)]
           past == arr[Len(arr) - n]
       IN IF past = 0 THEN Null ELSE Sub(Div(now, past), SCALE)

\* indices here are 1-based: JavaScript index i is element i + 1
returns(closes, window) ==
  LET start == IF Len(closes) - window > 1 THEN Len(closes) - window ELSE 1
  IN [j \in 1..(Len(closes) - start) |->
        Sub(Div(closes[start + j], closes[start + j - 1]), SCALE)]

mean(xs) ==
  IF Len(xs) = 0 THEN NaN ELSE DivInt(SumFrom(xs, 1), Len(xs))

stdev(xs) ==
  IF Len(xs) = 0 THEN NaN
  ELSE LET m == mean(xs)
           sq == [i \in 1..Len(xs) |-> MulRaw(Sub(xs[i], m), Sub(xs[i], m))]
       IN MathSqrt(DivInt(SumFrom(sq, 1), Len(xs)))

\* ---------------------------------------------------------------------
\* Input data: the content of data/latest.json
\*
\* A bar is the row [date, open, high, low, close, volume]; JavaScript
\* index j is element j + 1.  A series is described by a profile: its
\* length n, five price levels (whole price units) for the bars at
\* distance k from the newest bar (k >= 61, 21..60, 11..20, 1..10, 0), a
\* base and a final volume, and one optional defect: "zero30" a close of
\* 0 thirty bars back, "nohigh" a high that is not a number ("n/a") three
\* bars back, "zerovol" volumes of 0 throughout, "nullrow" a null in
\* place of the row a hundred bars back.  "wide" is no defect: the daily
\* range of every bar is three times the usual one.
\* ---------------------------------------------------------------------
NullRow == <<>>

Level(p, k) ==
  IF k >= 61 THEN p.px[1]
  ELSE IF k >= 21 THEN p.px[2]
  ELSE IF k >= 11 THEN p.px[3]
  ELSE IF k >= 1 THEN p.px[4]
  ELSE p.px[5]

HalfRange == SCALE \div 10

Bar(p, k) ==
  LET c0 == Level(p, k) * SCALE
      c == IF p.g = "zero30" /\ k = 30 THEN 0 ELSE c0
      half == IF p.g = "wide" THEN 3 * HalfRange ELSE HalfRange
      h == IF p.g = "nohigh" /\ k = 3 THEN NaN ELSE c0 + half
      v == IF p.g = "zerovol" THEN 0
           ELSE (IF k = 0 THEN p.vl[2] ELSE p.vl[1]) * 100
  IN IF p.g = "nullrow" /\ k = 100 THEN NullRow
     ELSE <<p.n - k, c0, h, c0 - half, c, v>>

Rows(p) == [i \in 1..p.n |-> Bar(p, p.n - i)]

Prof(n, px, vl, g) == [n |-> n, px |-> px, vl |-> vl, g |-> g]

PxUp == <<10, 12, 14, 15, 16>>
PxAlt == <<10, 14, 13, 14, 16>>
PxDown == <<16, 15, 14, 13, 12>>
PxWeak == <<16, 12, 12, 13, 14>>
PxFade == <<10, 10, 10, 16, 16>>
PxFlat == <<10, 10, 10, 10, 10>>
PxDip == <<10, 16, 16, 16, 15>>
PxSpy == <<10, 11, 12, 12, 13>>

\* ---------------------------------------------------------------------
\* Metrics helpers
\* ---------------------------------------------------------------------
Column(rows, j) == [i \in 1..Len(rows) |-> rows[i][j + 1]]

\* rows.map(r => r[j]) throws a TypeError when a row is null
MapThrows(rows) == \E i \in 1..Len(rows) : rows[i] = NullRow

TrueRange(highs, lows, closes, i) ==
  LET h == highs[i]
      l == lows[i]
      prevc == closes[i - 1]
  IN MathMax(MathMax(Sub(h, l), MathAbs(Sub(h, prevc))),
             MathAbs(Sub(l, prevc)))

atrPercent(highs, lows, closes, period) ==
  IF Len(closes) <= period THEN Null
  ELSE LET tr == [i \in 1..Len(highs) |->
                    IF i > Len(highs) - period
                    THEN TrueRange(highs, lows, closes, i) ELSE 0]
           sumTR == SumFrom(tr, Len(highs) - period + 1)
           atr == DivInt(sumTR, period)
           lastClose == last(closes)
       IN IF lastClose # 0 /\ lastClose # NaN THEN Div(atr, lastClose)
          ELSE Null

\* tickers is the parsed "tickers" object: a sequence of [t, rows] in key
\* order.  A key that is absent reads as the empty series: every use
\* treats "absent" and "too short" alike.
Get(tickers, t) ==
  IF \E i \in 1..Len(tickers) : tickers[i].t = t
  THEN tickers[CHOOSE i \in 1..Len(tickers) : tickers[i].t = t].rows
  ELSE <<>>

relStrength60(tickersObj, tkr) ==
  LET spy == Get(tickersObj, "SPY")
      xr == Get(tickersObj, tkr)
  IN IF Len(spy) < 70 \/ Len(xr) < 70 THEN Null
     ELSE LET spyR == ret(Column(spy, 4), 60)
              xR == ret(Column(xr, 4), 60)
          IN IF spyR = Null \/ xR = Null THEN Null ELSE Sub(xR, spyR)

DefensiveETFs == {"SPY", "QQQ", "IWM", "DIA", "XLV", "XLP", "TLT", "IEF"}

isDefensiveETF(t) == t \in DefensiveETFs

\* ---------------------------------------------------------------------
\* Regime and late-month mode
\* ---------------------------------------------------------------------
\* a regime that fails closed on a short benchmark series
FailClosed ==
  [riskOn |-> FALSE, riskOnShort |-> FALSE,
   spyLast |-> NaN, spyMA200 |-> NaN, spyMA50 |-> NaN]

\* the regime returned when SPY is missing or shorter than 210 bars
FailOpen ==
  [riskOn |-> TRUE, riskOnShort |-> TRUE,
   spyLast |-> NaN, spyMA200 |-> NaN, spyMA50 |-> NaN]

\* the regime computed from the SPY closes
RegimeFrom(spyLast, spyMA200, spyMA50) ==
  [riskOn |-> spyMA200 # Null /\ Gt(spyLast, spyMA200),
   riskOnShort |-> spyMA50 # Null /\ Gt(spyLast, spyMA50),
   spyLast |-> spyLast, spyMA200 |-> spyMA200, spyMA50 |-> spyMA50]

computeMarketRegime(tickers) ==
  IF Len(Get(tickers, "SPY")) < 210 THEN FailOpen
  ELSE RegimeFrom(last(Column(Get(tickers, "SPY"), 4)),
                  sma(Column(Get(tickers, "SPY"), 4), 200),
                  sma(Column(Get(tickers, "SPY"), 4), 50))

\* a date is [m, d, leap]: month, day of the month, and whether the year
\* is a leap year
DaysInMonth(m) ==
  IF m = 2 THEN 28 ELSE IF m \in {4, 6, 9, 11} THEN 30 ELSE 31

\* new Date(year, month + 1, 0).getDate()
DaysInMonthOf(now) ==
  IF now.m = 2 /\ now.leap THEN 29 ELSE DaysInMonth(now.m)

\* late mode with < in place of <=
getLateMonthModeStrict(now) ==
  [lateMode |-> DaysInMonthOf(now) - now.d < LATE_WINDOW_DAYS,
   daysRemaining |-> DaysInMonthOf(now) - now.d]

getLateMonthMode(now) ==
  LET daysRemaining == DaysInMonthOf(now) - now.d
  IN [lateMode |-> daysRemaining <= LATE_WINDOW_DAYS,
      daysRemaining |-> daysRemaining]

\* ---------------------------------------------------------------------
\* Candidate scorer: the body of the loop over the tickers in run
\* ---------------------------------------------------------------------
\* fixed-point value of the decimal literal h/100
Pct(h) == (h * SCALE) \div 100

\* a stored streak value is a number or NonNumeric, a string such as "abc"
\* that Number() converts to NaN and to which + 1 appends a character
NonNumeric == NaN

\* Number(streaks[ticker] || 0); an absent key reads as undefined
StreakOf(stk, ticker) ==
  IF ticker \in DOMAIN stk THEN stk[ticker] ELSE 0

\* eligibility without the trend alternative of the risk-off branch
EligibleAllowlistOnly(lastClose, ma20, riskOn, trendStrong, ticker) ==
  Gt(lastClose, ma20) /\ (riskOn \/ isDefensiveETF(ticker))

Eligible(lastClose, ma20, riskOn, trendStrong, ticker) ==
  Gt(lastClose, ma20) /\
  (IF riskOn THEN TRUE ELSE (trendStrong \/ isDefensiveETF(ticker)))

\* the fading filter with the factor 0.50 in place of 0.35
FadingHalf(r10, r20) == Gt(r20, 0) /\ Lt(r10, Mul(Pct(50), r20))

\* if (r20 > 0 && r10 < 0.35 * r20) continue
Fading(r10, r20) == Gt(r20, 0) /\ Lt(r10, Mul(Pct(35), r20))

\* the steps of the score, in the order of the loop body; s is the score
\* so far
BaseScore(r20, r60, vol20, trendStrong, ctx) ==
  Sub(Add(Add(Mul(Pct(45), r60), Mul(Pct(25), r20)),
          IF trendStrong THEN Pct(6) ELSE 0),
      Mul((IF ctx.riskOn THEN Pct(30) ELSE Pct(55))
          + (IF ctx.lateMode THEN Pct(20) ELSE 0), vol20))

\* the penalty without its cap at a streak of 5
StreakPenaltyUncapped(s, streak) == Sub(s, MulRaw(Pct(1), streak))

\* score -= 0.01 * Math.min(5, streak)
StreakPenalty(s, streak) == Sub(s, MulRaw(Pct(1), MathMin(5, streak)))

ShortRegime(s, riskOnShort) == IF ~riskOnShort THEN Mul(s, Pct(75)) ELSE s

RelStrength(s, rs60) == IF rs60 # Null THEN Add(s, Mul(Pct(20), rs60)) ELSE s

\* the bonus with the coefficient 0.02 in place of 0.04
SurgeBonusHalf(s, volSurge) ==
  IF volSurge # Null /\ Gt(volSurge, SCALE)
  THEN Add(s, MathMin(Pct(6), Mul(Pct(2), Sub(volSurge, SCALE))))
  ELSE s

SurgeBonus(s, volSurge) ==
  IF volSurge # Null /\ Gt(volSurge, SCALE)
  THEN Add(s, MathMin(Pct(6), Mul(Pct(4), Sub(volSurge, SCALE))))
  ELSE s

AtrScale(s, atr14p) ==
  IF atr14p # Null
  THEN Mul(s, MathMax(Pct(50), Sub(SCALE, Div(atr14p, Pct(20)))))
  ELSE s

LateBonus(s, ticker, ctx) ==
  IF ctx.lateMode /\ ticker \in ctx.prevBuy4Set THEN Add(s, Pct(2)) ELSE s

ScoreOf(ticker, r20, r60, vol20, trendStrong, atr14p, volSurge, rs60, ctx) ==
  LateBonus(
    AtrScale(
      SurgeBonus(
        RelStrength(
          ShortRegime(
            StreakPenalty(BaseScore(r20, r60, vol20, trendStrong, ctx),
                          StreakOf(ctx.streaks, ticker)),
            ctx.riskOnShort),
          rs60),
        volSurge),
      atr14p),
    ticker, ctx)

\* what the loop body computes from the rows alone
Metrics(tickers, ticker, rows) ==
  LET highs == Column(rows, 2)
      lows == Column(rows, 3)
      closes == Column(rows, 4)
      vols == Column(rows, 5)
  IN [n |-> Len(rows),
      lastClose |-> last(closes),
      ma20 |-> sma(closes, 20),
      ma50 |-> sma(closes, 50),
      ma200 |-> sma(closes, 200),
      r10 |-> ret(closes, 10),
      r20 |-> ret(closes, 20),
      r60 |-> ret(closes, 60),
      vol20 |-> stdev(returns(closes, 21)),
      atr14p |-> atrPercent(highs, lows, closes, 14),
      volSurge |-> IF Len(vols) >= 21 /\ sma(vols, 20) # Null
                   THEN Div(last(vols), sma(vols, 20)) ELSE Null,
      rs60 |-> relStrength60(tickers, ticker),
      retSeries |-> returns(closes, CORR_LOOKBACK + 1)]

TrendStrong(m) ==
  Gt(m.lastClose, m.ma20) /\ Gt(m.ma20, m.ma50) /\ Gt(m.ma50, m.ma200)

\* if (!rows || rows.length < MIN_HISTORY) continue, with <= for <
TooShortInclusive(m) == m.n <= MIN_HISTORY

\* if (!rows || rows.length < MIN_HISTORY) continue
TooShort(m) == m.n < MIN_HISTORY

\* the other filters of the loop body, in order
Filtered(m) ==
  \/ ~IsFinite(m.lastClose)
  \/ m.ma20 = Null \/ m.ma50 = Null \/ m.ma200 = Null
  \/ m.r10 = Null \/ m.r20 = Null \/ m.r60 = Null
  \/ Fading(m.r10, m.r20)
  \/ ~IsFinite(m.vol20) \/ m.vol20 <= 0

\* TRUE when the ticker is skipped
Skipped(m) == TooShort(m) \/ Filtered(m)

\* the candidates pushed for one ticker: none or one
Candidate(ticker, m, ctx) ==
  IF Skipped(m) THEN <<>>
  ELSE
    LET trendStrong == TrendStrong(m)
    IN << [ticker |-> ticker, lastClose |-> m.lastClose,
           r20 |-> m.r20, r60 |-> m.r60, vol20 |-> m.vol20,
           atr14p |-> m.atr14p, volSurge |-> m.volSurge, rs60 |-> m.rs60,
           trendStrong |-> trendStrong,
           eligible |-> Eligible(m.lastClose, m.ma20, ctx.riskOn,
                                 trendStrong, ticker),
           score |-> ScoreOf(ticker, m.r20, m.r60, m.vol20, trendStrong,
                             m.atr14p, m.volSurge, m.rs60, ctx),
           retSeries |-> m.retSeries] >>

\* results after the loop; ms[i] are the metrics of names[i]
RECURSIVE Candidates(_, _, _, _)
Candidates(names, ms, i, ctx) ==
  IF i > Len(names) THEN <<>>
  ELSE Candidate(names[i], ms[i], ctx) \o Candidates(names, ms, i + 1, ctx)

\* does the scoring part of run throw a TypeError on a null row?
\* computeMarketRegime maps the SPY rows when there are at least 210; the
\* loop maps the rows of every ticker with MIN_HISTORY rows; relStrength60
\* maps the SPY rows (at least 70) for a ticker that reached that line.
ReachesMetrics(rows) ==
  LET closes == Column(rows, 4)
      r10 == ret(closes, 10)
      r20 == ret(closes, 20)
      vol20 == stdev(returns(closes, 21))
  IN /\ IsFinite(last(closes))
     /\ r10 # Null /\ r20 # Null /\ ret(closes, 60) # Null
     /\ ~Fading(r10, r20)
     /\ IsFinite(vol20) /\ vol20 > 0

ScoringThrows(tickers) ==
  LET spy == Get(tickers, "SPY")
  IN \/ Len(spy) >= 210 /\ MapThrows(spy)
     \/ \E i \in 1..Len(tickers) :
          /\ Len(tickers[i].rows) >= MIN_HISTORY
          /\ \/ MapThrows(tickers[i].rows)
             \/ /\ Len(spy) >= 70 /\ MapThrows(spy)
                /\ ReachesMetrics(tickers[i].rows)

\* ---------------------------------------------------------------------
\* The responses the page can get for data/latest.json
\* ---------------------------------------------------------------------
Full(px) == Prof(MIN_HISTORY, px, <<10, 10>>, "none")

\* a last volume of 57 on an average of 38: volSurge = 1.5
Surge(px) == Prof(MIN_HISTORY, px, <<37, 57>>, "none")

Defect(px, g) == Prof(MIN_HISTORY, px, <<10, 10>>, g)

Sized(n, px) == Prof(n, px, <<10, 10>>, "none")

\* json.tickers of each body, as <<ticker, profile>> in key order
BodyProfiles ==
  [bull |-> << <<"SPY", Full(PxSpy)>>, <<"XLV", Full(PxWeak)>>,
               <<"AAA", Full(PxUp)>>, <<"BBB", Surge(PxUp)>>,
               <<"CCC", Full(PxAlt)>>, <<"DDD", Full(PxDown)>> >>,
   bear |-> << <<"SPY", Full(PxDown)>>, <<"XLV", Full(PxWeak)>>,
               <<"AAA", Full(PxUp)>>, <<"BBB", Full(PxWeak)>>,
               <<"CCC", Surge(PxAlt)>> >>,
   dip |-> << <<"AAA", Full(PxUp)>>, <<"SPY", Full(PxDip)>>,
              <<"BBB", Full(PxAlt)>>, <<"DDD", Defect(PxSpy, "zerovol")>> >>,
   nospy |-> << <<"AAA", Sized(MIN_HISTORY - 1, PxUp)>>,
                <<"BBB", Sized(MIN_HISTORY, PxAlt)>>,
                <<"CCC", Sized(MIN_HISTORY + 1, PxWeak)>>,
                <<"DDD", Full(PxFade)>>, <<"XLV", Full(PxFlat)>> >>,
   shortspy |-> << <<"SPY", Sized(209, PxDown)>>, <<"AAA", Full(PxWeak)>>,
                   <<"BBB", Full(PxAlt)>> >>,
   nodata |-> << >>,
   losers |-> << <<"SPY", Full(PxDown)>>, <<"AAA", Full(PxWeak)>>,
                 <<"BBB", Full(PxDip)>>, <<"EEE", Defect(PxDip, "wide")>> >>,
   nanscore |-> << <<"AAA", Full(PxAlt)>>, <<"BBB", Defect(PxUp, "nohigh")>>,
                   <<"CCC", Full(PxUp)>> >>,
   glitch |-> << <<"AAA", Defect(PxUp, "zero30")>>,
                 <<"BBB", Defect(PxUp, "zero30")>>, <<"CCC", Full(PxWeak)>> >>,
   nullrow |-> << <<"AAA", Full(PxUp)>>, <<"BBB", Defect(PxAlt, "nullrow")>> >>,
   crowd |-> << <<"AAA", Full(PxUp)>>, <<"BBB", Full(PxUp)>>,
                <<"CCC", Full(PxUp)>>, <<"EEE", Full(PxUp)>>,
                <<"FFF", Full(PxUp)>>, <<"GGG", Full(PxUp)>>,
                <<"HHH", Full(PxUp)>>, <<"III", Full(PxUp)>>,
                <<"JJJ", Full(PxUp)>>, <<"KKK", Full(PxUp)>>,
                <<"LLL", Full(PxAlt)>> >>]

Bodies == DOMAIN BodyProfiles

\* const tickers = json.tickers || {}
Expand(body) ==
  LET ps == BodyProfiles[body]
  IN [i \in 1..Len(ps) |-> [t |-> ps[i][1], rows |-> Rows(ps[i][2])]]

\* The bodies are fixed, so what run computes from a body alone is
\* tabulated once per body.
TickersTable == [b \in Bodies |-> Expand(b)]

TickersOf(body) == TickersTable[body]

KeysOf(body) == [i \in 1..Len(BodyProfiles[body]) |-> BodyProfiles[body][i][1]]

ThrowsTable == [b \in Bodies |-> ScoringThrows(TickersOf(b))]

NoMetrics == [n |-> 0]

\* the metrics of every ticker of a map; none for rows that cannot be mapped
MetricsOf(tickers) ==
  [i \in 1..Len(tickers) |->
     IF MapThrows(tickers[i].rows) THEN NoMetrics
     ELSE Metrics(tickers, tickers[i].t, tickers[i].rows)]

MetricsTable == [b \in Bodies |-> MetricsOf(TickersOf(b))]

\* a run that throws leaves no regime behind
RegimeOf(tickers, throws) ==
  computeMarketRegime(IF throws THEN <<>> ELSE tickers)

RegimeTable == [b \in Bodies |-> RegimeOf(TickersOf(b), ThrowsTable[b])]

\* ---------------------------------------------------------------------
\* Ranking: results.sort((a, b) => (b.eligible - a.eligible) || (b.score - a.score))
\* ---------------------------------------------------------------------
BoolNum(b) == IF b THEN 1 ELSE 0

\* the sign of the comparator's value; Array.prototype.sort reads a NaN
\* result as +0
Compare(a, b) ==
  LET e == BoolNum(b.eligible) - BoolNum(a.eligible)
      d == Sub(b.score, a.score)
  IN IF e # 0 THEN e ELSE IF d = NaN THEN 0 ELSE Sign(d)

\* ECMAScript's "consistent comparator" for the elements of arr.  Without a
\* NaN score Compare is the lexicographic order on (eligible, score), which
\* is consistent; the triples are examined only when a score is NaN.
ConsistentComparator(arr) ==
  \/ \A i \in 1..Len(arr) : arr[i].score # NaN
  \/ \A i, j, k \in 1..Len(arr) :
       LET a == arr[i]
           b == arr[j]
           c == arr[k]
       IN /\ Compare(a, a) = 0
          /\ (Compare(a, b) = 0) => (Compare(b, a) = 0)
          /\ (Compare(a, b) = 0 /\ Compare(b, c) = 0) => (Compare(a, c) = 0)
          /\ (Compare(a, b) < 0 /\ Compare(b, c) < 0) => (Compare(a, c) < 0)
          /\ (Compare(a, b) > 0 /\ Compare(b, c) > 0) => (Compare(a, c) > 0)
          /\ (Compare(a, b) < 0) => (Compare(b, a) > 0)
          /\ (Compare(a, b) > 0) => (Compare(b, a) < 0)

\* insert x behind every element that does not sort after it (stable)
RECURSIVE InsertSorted(_, _)
InsertSorted(sorted, x) ==
  IF sorted = <<>> THEN <<x>>
  ELSE IF Compare(x, Head(sorted)) < 0 THEN <<x>> \o sorted
  ELSE <<Head(sorted)>> \o InsertSorted(Tail(sorted), x)

RECURSIVE StableSort(_, _, _)
StableSort(arr, i, acc) ==
  IF i > Len(arr) THEN acc
  ELSE StableSort(arr, i + 1, InsertSorted(acc, arr[i]))

Reorderings(arr) ==
  LET n == Len(arr)
      Perms == {f \in [1..n -> 1..n] : \A i, j \in 1..n : i # j => f[i] # f[j]}
  IN {[i \in 1..n |-> arr[f[i]]] : f \in Perms}

\* With a consistent comparator the result is the stable sort.  With an
\* inconsistent one (a NaN score among unequal scores) the order is
\* implementation-defined: any permutation.
SortOutcomes(arr) ==
  IF ConsistentComparator(arr) THEN {StableSort(arr, 1, <<>>)}
  ELSE Reorderings(arr)

Filter(arr, Test(_)) ==
  LET F[i \in 0..Len(arr)] ==
        IF i = 0 THEN <<>>
        ELSE IF Test(arr[i]) THEN Append(F[i - 1], arr[i]) ELSE F[i - 1]
  IN F[Len(arr)]

\* a filter that keeps every result
IsEligibleAll(r) == TRUE

IsEligible(r) == r.eligible

Slice(arr, n) == SubSeq(arr, 1, IF Len(arr) < n THEN Len(arr) ELSE n)

Tickers(arr) == [i \in 1..Len(arr) |-> arr[i].ticker]

\* ---------------------------------------------------------------------
\* Diversification
\* ---------------------------------------------------------------------
\* a / b for two numbers in units of 1/SCALE^2, result in units of 1/SCALE;
\* both are reduced by a common factor first so that a * SCALE fits
DivWide(a, b) ==
  IF ~IsFinite(a) \/ ~IsFinite(b) THEN Div(a, b)
  ELSE LET f == (MathAbs(a) \div 200000) + 1
       IN IF b \div f = 0 /\ b # 0
          THEN (IF Sign(a) * Sign(b) > 0 THEN PInf ELSE NInf)
          ELSE Div(a \div f, b \div f)

CrossSum(a2, b2, ma, mb) ==
  SumFrom([i \in 1..Len(a2) |-> MulRaw(Sub(a2[i], ma), Sub(b2[i], mb))], 1)

corr(a, b) ==
  LET n == IF Len(a) < Len(b) THEN Len(a) ELSE Len(b)
  IN IF n < 10 THEN NaN
     ELSE LET a2 == SubSeq(a, Len(a) - n + 1, Len(a))
              b2 == SubSeq(b, Len(b) - n + 1, Len(b))
              ma == mean(a2)
              mb == mean(b2)
              num == CrossSum(a2, b2, ma, mb)
              da == CrossSum(a2, a2, ma, ma)
              db == CrossSum(b2, b2, mb, mb)
              den == MulRaw(MathSqrt(da), MathSqrt(db))
          IN IF den = 0 THEN NaN ELSE DivWide(num, den)

\* corr is a pure function: its values on the return series of the bodies
\* are tabulated once
SeriesOf(ms) ==
  {ms[i].retSeries : i \in {j \in 1..Len(ms) : ms[j].n > 0}}

SeriesOfBodies == UNION {SeriesOf(MetricsTable[b]) : b \in Bodies}

CorrOn(S) == [a \in S |-> [b \in S |-> corr(a, b)]]

CorrTable == CorrOn(SeriesOfBodies)

Lookup(table, a, b) ==
  IF a \in DOMAIN table /\ b \in DOMAIN table THEN table[a][b]
  ELSE corr(a, b)

corrOf(a, b) == Lookup(CorrTable, a, b)

\* the similarity test with the cap at 1.0
TooSimilarAtOne(cand, picks) ==
  \E i \in 1..Len(picks) :
    LET c == corrOf(cand.retSeries, picks[i].retSeries)
    IN IsFinite(c) /\ c > SCALE

\* the test of the first loop with !(c <= CORR_MAX): an undefined
\* correlation blocks the candidate
TooSimilarUndefinedBlocks(cand, picks) ==
  \E i \in 1..Len(picks) :
    LET c == corrOf(cand.retSeries, picks[i].retSeries)
    IN ~IsFinite(c) \/ c > CORR_MAX

TooSimilar(cand, picks) ==
  \E i \in 1..Len(picks) :
    LET c == corrOf(cand.retSeries, picks[i].retSeries)
    IN IsFinite(c) /\ c > CORR_MAX

\* the first loop without its test of the length of the return series
RECURSIVE FirstPassAnyLength(_, _, _, _)
FirstPassAnyLength(eligibleList, n, i, picks) ==
  IF i > Len(eligibleList) \/ Len(picks) >= n THEN picks
  ELSE IF TooSimilar(eligibleList[i], picks)
       THEN FirstPassAnyLength(eligibleList, n, i + 1, picks)
       ELSE FirstPassAnyLength(eligibleList, n, i + 1,
                               Append(picks, eligibleList[i]))

\* the first loop of pickWithDiversification
RECURSIVE FirstPass(_, _, _, _)
FirstPass(eligibleList, n, i, picks) ==
  IF i > Len(eligibleList) \/ Len(picks) >= n THEN picks
  ELSE LET cand == eligibleList[i]
       IN IF Len(cand.retSeries) < CORR_LOOKBACK
          THEN FirstPass(eligibleList, n, i + 1, picks)
          ELSE IF TooSimilar(cand, picks)
          THEN FirstPass(eligibleList, n, i + 1, picks)
          ELSE FirstPass(eligibleList, n, i + 1, Append(picks, cand))

\* the top-up loop without its test for a ticker already picked
RECURSIVE TopUpRepeats(_, _, _, _)
TopUpRepeats(eligibleList, n, i, picks) ==
  IF i > Len(eligibleList) \/ Len(picks) >= n THEN picks
  ELSE TopUpRepeats(eligibleList, n, i + 1, Append(picks, eligibleList[i]))

\* the top-up loop
RECURSIVE TopUp(_, _, _, _)
TopUp(eligibleList, n, i, picks) ==
  IF i > Len(eligibleList) \/ Len(picks) >= n THEN picks
  ELSE LET cand == eligibleList[i]
       IN IF \E j \in 1..Len(picks) : picks[j].ticker = cand.ticker
          THEN TopUp(eligibleList, n, i + 1, picks)
          ELSE TopUp(eligibleList, n, i + 1, Append(picks, cand))

\* the selector without its top-up loop
pickNoTopUp(eligibleList, n) ==
  Slice(FirstPass(eligibleList, n, 1, <<>>), n)

pickWithDiversification(eligibleList, n) ==
  LET first == FirstPass(eligibleList, n, 1, <<>>)
      picks == IF Len(first) < n THEN TopUp(eligibleList, n, 1, first)
               ELSE first
  IN Slice(picks, n)

\* ---------------------------------------------------------------------
\* Persistence: localStorage
\*
\* A stored item is [k, v]: k = "missing" (no item), "invalid" (text that
\* is not JSON), "other" (JSON of another shape than the reader expects),
\* "arr" (a JSON array, v its elements) or "obj" (a JSON object, v its
\* key -> value mapping).
\* ---------------------------------------------------------------------
Item(k, v) == [k |-> k, v |-> v]

NoItem == Item("missing", <<>>)

readPrevState(ls) ==
  IF ls.top10.k = "invalid" \/ ls.buy4.k = "invalid"
  THEN [top10 |-> <<>>, buy4 |-> <<>>]
  ELSE [top10 |-> IF ls.top10.k = "arr" THEN ls.top10.v ELSE <<>>,
        buy4 |-> IF ls.buy4.k = "arr" THEN ls.buy4.v ELSE <<>>]

readStreaks(ls) ==
  IF ls.streaks.k = "obj" THEN ls.streaks.v ELSE <<>>

\* a save that adds the new counts to the stored object instead of
\* replacing it
writeStreaksMerged(ls, newStreaks) ==
  [ls EXCEPT !.streaks =
     Item("obj", [t \in DOMAIN readStreaks(ls) \cup DOMAIN newStreaks |->
                    IF t \in DOMAIN newStreaks THEN newStreaks[t]
                    ELSE readStreaks(ls)[t]])]

writeStreaks(ls, newStreaks) ==
  [ls EXCEPT !.streaks = Item("obj", newStreaks)]

writePrevState(ls, now, top, buy) ==
  [ls EXCEPT !.date = now,
                !.top10 = Item("arr", top),
                !.buy4 = Item("arr", buy)]

Range(seq) == {seq[i] : i \in 1..Len(seq)}

\* streaks that start again at 1 on every run
NewStreaksReset(stk, buy) == [t \in Range(Tickers(buy)) |-> 1]

\* streaks that keep the entries of the tickers no longer picked
NewStreaksCarry(stk, buy) ==
  [t \in DOMAIN stk \cup Range(Tickers(buy)) |->
     IF t \in Range(Tickers(buy)) THEN Add(StreakOf(stk, t), 1) ELSE stk[t]]

\* streaks that count from 0: the stored count without the + 1
NewStreaksFromZero(stk, buy) ==
  [t \in Range(Tickers(buy)) |-> StreakOf(stk, t)]

\* newStreaks[p.ticker] = (streaks[p.ticker] || 0) + 1 for the picks
NewStreaks(stk, buy) ==
  [t \in Range(Tickers(buy)) |-> Add(StreakOf(stk, t), 1)]

TickerNames == {"SPY", "XLV", "AAA", "BBB", "CCC", "DDD", "EEE", "FFF", "GGG",
                "HHH", "III", "JJJ", "KKK", "LLL"}

\* ---------------------------------------------------------------------
\* State
\* ---------------------------------------------------------------------
MaxRuns == 2
MaxTicks == 1

Procs == {"auto", "click"}

VARIABLES
  today,     \* the wall-clock date [m, d]
  ticks,     \* days elapsed since the page was opened
  store,     \* localStorage: [top10, buy4, date, streaks]
  pc,        \* where each invocation of run stands
  file,      \* the text of data/latest.json on the server
  resp,      \* the body each invocation received
  runs,      \* invocations of run started so far
  statusText,\* statusEl.textContent
  out,       \* outEl.innerHTML
  json,      \* the body of the last run that reached the selection
  streaks,   \* locals of that run
  prev,
  regime,
  late,
  results,
  top10,
  buy4

vars == <<today, ticks, store, pc, file, resp, runs, statusText, out,
          json, streaks, prev, regime, late, results, top10, buy4>>

runLocals == <<json, streaks, prev, regime, late, results, top10, buy4>>

\* the file holds one of the bodies or text that is not JSON
Files == Bodies \cup {"badjson"}

\* the files published on a later day of the session
DayFiles == {"bull", "bear", "nodata"}

StartDate == [m |-> 2, d |-> 20, leap |-> FALSE]

NoDate == [m |-> 0, d |-> 0, leap |-> FALSE]

FreshStore ==
  [top10 |-> NoItem, buy4 |-> NoItem, date |-> NoDate, streaks |-> NoItem]

\* what localStorage can hold when the page is opened: nothing, the state
\* a previous visit saved, or items some other script or a crash damaged
InitStores ==
  { FreshStore,
    [top10 |-> Item("arr", <<"AAA", "XLV", "CCC">>),
     buy4 |-> Item("arr", <<"AAA", "XLV">>),
     date |-> [m |-> 2, d |-> 19, leap |-> FALSE],
     streaks |-> Item("obj", [t \in {"AAA", "XLV", "KKK"} |->
                                IF t = "AAA" THEN 5
                                ELSE IF t = "KKK" THEN 7 ELSE 1])],
    [top10 |-> Item("invalid", <<>>),
     buy4 |-> Item("arr", <<"CCC">>),
     date |-> NoDate,
     streaks |-> Item("obj", [t \in {"DDD", "CCC"} |->
                                IF t = "DDD" THEN NonNumeric ELSE 2])],
    [top10 |-> Item("arr", <<"BBB">>),
     buy4 |-> Item("other", <<>>),
     date |-> [m |-> 2, d |-> 19, leap |-> FALSE],
     streaks |-> Item("invalid", <<>>)] }

Init ==
  /\ today = StartDate
  /\ ticks = 0
  /\ store \in InitStores
  /\ pc = [p \in Procs |-> IF p = "auto" THEN "timer" ELSE "idle"]
  /\ file \in Files
  /\ resp = [p \in Procs |-> "none"]
  /\ runs = 0
  /\ statusText = ""
  /\ out = ""
  /\ json = "none"
  /\ streaks = <<>>
  /\ prev = [top10 |-> <<>>, buy4 |-> <<>>]
  /\ regime = FailOpen
  /\ late = getLateMonthMode(StartDate)
  /\ results = <<>>
  /\ top10 = <<>>
  /\ buy4 = <<>>

\* ---------------------------------------------------------------------
\* Actions
\* ---------------------------------------------------------------------
NextDay(now) ==
  IF now.d < DaysInMonthOf(now) THEN [now EXCEPT !.d = now.d + 1]
  ELSE [now EXCEPT !.m = (now.m % 12) + 1, !.d = 1]

\* midnight passes and the daily data file is replaced; no invocation of
\* run is in flight across midnight
Tick ==
  /\ \A p \in Procs : pc[p] \notin {"fetch", "json"}
  /\ ticks < MaxTicks
  /\ ticks' = ticks + 1
  /\ today' = NextDay(today)
  /\ file' \in DayFiles
  /\ UNCHANGED <<store, pc, resp, runs, statusText, out, runLocals>>

\* an invocation that returned: the load timer fires once, the button can
\* be clicked again
Ended(p) == IF p = "auto" THEN "done" ELSE "idle"

\* run is entered (the timer of DOMContentLoaded fires, or a click) and
\* runs up to the await of fetch
Start(p) ==
  /\ pc[p] = (IF p = "auto" THEN "timer" ELSE "idle")
  /\ runs < MaxRuns
  /\ runs' = runs + 1
  /\ pc' = [pc EXCEPT ![p] = "fetch"]
  /\ statusText' = "Loading data"
  /\ out' = ""
  /\ UNCHANGED <<today, ticks, store, file, resp, runLocals>>

\* the response is not ok: status message and return
FetchNotOk(p) ==
  /\ pc[p] = "fetch"
  /\ pc' = [pc EXCEPT ![p] = Ended(p)]
  /\ statusText' = "Could not load data/latest.json"
  /\ out' = "Fetch failed"
  /\ UNCHANGED <<today, ticks, store, file, resp, runs, runLocals>>

\* a catch block that also clears the run-state
CatchClears(p) ==
  /\ pc' = [pc EXCEPT ![p] = Ended(p)]
  /\ resp' = [resp EXCEPT ![p] = "none"]
  /\ statusText' = "JS error"
  /\ out' = "Crash"
  /\ store' = FreshStore
  /\ UNCHANGED <<today, ticks, file, runs, runLocals>>

\* the catch block of run
Catch(p) ==
  /\ pc' = [pc EXCEPT ![p] = Ended(p)]
  /\ resp' = [resp EXCEPT ![p] = "none"]
  /\ statusText' = "JS error"
  /\ out' = "Crash"
  /\ UNCHANGED <<today, ticks, store, file, runs, runLocals>>

\* fetch rejects (network error)
FetchRejects(p) ==
  /\ pc[p] = "fetch"
  /\ Catch(p)

\* the response is ok and carries the current file
FetchOk(p) ==
  /\ pc[p] = "fetch"
  /\ resp' = [resp EXCEPT ![p] = file]
  /\ pc' = [pc EXCEPT ![p] = "json"]
  /\ UNCHANGED <<today, ticks, store, file, runs, statusText, out, runLocals>>

\* res.json() rejects, or the scoring loop throws on a null row
RunThrows(p) ==
  /\ pc[p] = "json"
  /\ \/ resp[p] = "badjson"
     \/ resp[p] \in Bodies /\ ThrowsTable[resp[p]]
  /\ Catch(p)

\* the end of run: streaks and state are saved, the status and the table
\* (or the no-picks message) are shown
Finish(p, body, sorted, eligibleList, b4, st, pv, rg, lm) ==
  /\ store' = writePrevState(writeStreaks(store, NewStreaks(st, b4)), today,
                             Tickers(Slice(eligibleList, SHOW_N)),
                             Tickers(b4))
  /\ results' = sorted
  /\ top10' = Slice(eligibleList, SHOW_N)
  /\ buy4' = b4
  /\ out' = IF Len(b4) = 0 THEN "No eligible picks today" ELSE "Table"
  /\ json' = body
  /\ streaks' = st
  /\ prev' = pv
  /\ regime' = rg
  /\ late' = lm
  /\ statusText' = "Done"
  /\ pc' = [pc EXCEPT ![p] = Ended(p)]
  /\ resp' = [resp EXCEPT ![p] = "none"]
  /\ UNCHANGED <<today, ticks, file, runs>>

\* ranking and selection
Select(p, body, sorted, eligibleList, st, pv, rg, lm) ==
  Finish(p, body, sorted, eligibleList,
         pickWithDiversification(eligibleList, BUY_N), st, pv, rg, lm)

\* the scoring loop and the sort
Score(p, body, st, pv, rg, lm) ==
  \E sorted \in SortOutcomes(Candidates(KeysOf(body), MetricsTable[body], 1,
                    [riskOn |-> rg.riskOn, riskOnShort |-> rg.riskOnShort,
                     lateMode |-> lm.lateMode,
                     prevBuy4Set |-> Range(pv.buy4), streaks |-> st])) :
    Select(p, body, sorted, Filter(sorted, IsEligible), st, pv, rg, lm)

\* the synchronous rest of run: regime, scoring, ranking, selection, save
RunCompletes(p) ==
  /\ pc[p] = "json"
  /\ resp[p] \in Bodies
  /\ ~ThrowsTable[resp[p]]
  /\ Score(p, resp[p], readStreaks(store), readPrevState(store),
           RegimeTable[resp[p]], getLateMonthMode(today))

Next ==
  \/ Tick
  \/ \E p \in Procs : Start(p)
  \/ \E p \in Procs : FetchNotOk(p)
  \/ \E p \in Procs : FetchRejects(p)
  \/ \E p \in Procs : FetchOk(p)
  \/ \E p \in Procs : RunThrows(p)
  \/ \E p \in Procs : RunCompletes(p)

Spec == Init /\ [][Next]_vars

\* ---------------------------------------------------------------------
\* Properties
\*
\* json, streaks, prev, regime, late, results, top10 and buy4 hold the
\* locals of the last invocation of run that reached its end; store holds
\* what that invocation saved.
\* ---------------------------------------------------------------------
Completed == json # "none"

\* the step in which invocation p reaches the end of run
Completes(p) ==
  pc[p] = "json" /\ pc'[p] = Ended(p) /\ statusText' = "Done"

IndexOf(body, ticker) ==
  CHOOSE i \in 1..Len(KeysOf(body)) : KeysOf(body)[i] = ticker

MetricsFor(body, ticker) == MetricsTable[body][IndexOf(body, ticker)]

\* the picks after the first loop of pickWithDiversification
FirstPicks == FirstPass(Filter(results, IsEligible), BUY_N, 1, <<>>)

\* the stored run-state is absent or what a run saves: arrays of tickers
\* and numeric streak counts
WellFormedState(ls) ==
  /\ ls.top10.k \in {"missing", "arr"}
  /\ ls.buy4.k \in {"missing", "arr"}
  /\ \/ ls.streaks.k = "missing"
     \/ /\ ls.streaks.k = "obj"
        /\ \A t \in DOMAIN ls.streaks.v : IsFinite(ls.streaks.v[t])

\* every series of the map is an array of bars
WellFormedMap(body) ==
  \A i \in 1..Len(TickersOf(body)) : ~MapThrows(TickersOf(body)[i].rows)

\* C1: after the sort, no ineligible result precedes an eligible one, and
\* among results of equal eligibility none precedes one with a strictly
\* higher score.
C1_RankedOrder ==
  \A i, j \in 1..Len(results) :
    i < j =>
      /\ ~(~results[i].eligible /\ results[j].eligible)
      /\ (results[i].eligible = results[j].eligible
            => ~Gt(results[j].score, results[i].score))

\* C2 as stated: every two picks of the first pass have a correlation that
\* is at most CORR_MAX.
C2_FirstPassCapped ==
  \A i, j \in 1..Len(FirstPicks) :
    i < j => Le(corrOf(FirstPicks[i].retSeries, FirstPicks[j].retSeries),
                CORR_MAX)

\* C2, amended: no two picks of the first pass have a defined (finite)
\* correlation above CORR_MAX; in particular two picks of the first pass
\* never have the same return series with a defined correlation.
C2_FirstPassDiverse ==
  \A i, j \in 1..Len(FirstPicks) :
    i < j =>
      LET c == corrOf(FirstPicks[i].retSeries, FirstPicks[j].retSeries)
      IN /\ ~(IsFinite(c) /\ c > CORR_MAX)
         /\ FirstPicks[i].retSeries = FirstPicks[j].retSeries => ~IsFinite(c)

\* a candidate with the return series of an accepted pick was rejected by
\* the first pass and entered the buy list in the top-up
C2_Witness ==
  /\ Completed
  /\ \E i, j \in 1..Len(buy4) :
       /\ buy4[i].ticker # buy4[j].ticker
       /\ buy4[i].retSeries = buy4[j].retSeries
       /\ IsFinite(corrOf(buy4[i].retSeries, buy4[j].retSeries))
       /\ buy4[i].ticker \in Range(Tickers(FirstPicks))
       /\ buy4[j].ticker \notin Range(Tickers(FirstPicks))

MaxTarget == 6

\* C3: for the ranked eligible list of a run and every target n,
\* pickWithDiversification returns exactly min(n, |E|) picks.
C3_PickCount ==
  Completed =>
    /\ Len(buy4) = (IF Len(Filter(results, IsEligible)) < BUY_N
                    THEN Len(Filter(results, IsEligible)) ELSE BUY_N)
    /\ \A n \in 0..MaxTarget :
         Len(pickWithDiversification(Filter(results, IsEligible), n))
           = (IF Len(Filter(results, IsEligible)) < n
              THEN Len(Filter(results, IsEligible)) ELSE n)

\* the correlation cap left the first pass short of BUY_N although enough
\* candidates were eligible, and the buy list is full
C3_Witness ==
  /\ Completed
  /\ Len(Filter(results, IsEligible)) > BUY_N
  /\ Len(FirstPicks) < BUY_N
  /\ Len(buy4) = BUY_N

\* C4: when a run completes on a well-formed run-state, every ticker of
\* the previous buy list that is in the new buy list has a saved streak
\* greater by exactly 1 than the one saved before.
C4_ConsecutiveStreak ==
  [][\A p \in Procs :
       (Completes(p) /\ WellFormedState(store)) =>
         \A t \in Range(readPrevState(store).buy4)
                    \cap Range(Tickers(buy4')) :
           store'.streaks.v[t] = StreakOf(readStreaks(store), t) + 1]_vars

\* a ticker of two consecutive buy lists whose saved streak grew by one
C4_Witness ==
  /\ Completed
  /\ \E t \in Range(prev.buy4) \cap Range(Tickers(buy4)) :
       /\ t \in DOMAIN streaks
       /\ IsFinite(streaks[t])
       /\ streaks[t] >= 1
       /\ store.streaks.v[t] = streaks[t] + 1

\* C5: after a completed run the saved streaks have an entry exactly for
\* the tickers of the new buy list: one more than the count read for a
\* ticker that had one, and 1 for a ticker that had none.
C5_StreaksOnlyForPicks ==
  Completed =>
    /\ store.streaks.k = "obj"
    /\ DOMAIN store.streaks.v = Range(Tickers(buy4))
    /\ \A t \in DOMAIN store.streaks.v :
         IF t \in DOMAIN streaks
         THEN IsFinite(streaks[t]) => store.streaks.v[t] = streaks[t] + 1
         ELSE store.streaks.v[t] = 1

\* a ticker with a streak dropped out of the buy list and lost its entry,
\* and a ticker without one was picked and starts at 1
C5_Witness ==
  /\ Completed
  /\ \E t \in DOMAIN streaks : t \notin DOMAIN store.streaks.v
  /\ \E u \in DOMAIN store.streaks.v :
       u \notin DOMAIN streaks /\ store.streaks.v[u] = 1

\* C7: when SPY is missing or has fewer than 210 bars the regime is
\* risk-on in both horizons with the benchmark metrics unavailable, every
\* result is eligible exactly when its last close is above its MA20, and
\* every score is the one computed without the short-regime reduction.
C7_FailOpen ==
  (Completed /\ Len(Get(TickersOf(json), "SPY")) < 210) =>
    /\ regime.riskOn /\ regime.riskOnShort
    /\ regime.spyLast = NaN /\ regime.spyMA200 = NaN /\ regime.spyMA50 = NaN
    /\ \A i \in 1..Len(results) :
         LET r == results[i]
         IN /\ r.eligible = Gt(r.lastClose, MetricsFor(json, r.ticker).ma20)
            /\ r.score = ScoreOf(r.ticker, r.r20, r.r60, r.vol20,
                                 r.trendStrong, r.atr14p, r.volSurge, r.rs60,
                                 [riskOn |-> TRUE, riskOnShort |-> TRUE,
                                  lateMode |-> late.lateMode,
                                  prevBuy4Set |-> Range(prev.buy4),
                                  streaks |-> streaks])

\* SPY has 209 bars of a falling market, and an instrument that is neither
\* in a strong trend nor on the allowlist is eligible
C7_Witness ==
  /\ Completed
  /\ Len(Get(TickersOf(json), "SPY")) = 209
  /\ \E i \in 1..Len(results) :
       /\ results[i].eligible
       /\ ~results[i].trendStrong
       /\ ~isDefensiveETF(results[i].ticker)

\* C8: an instrument with MIN_HISTORY - 1 bars is in none of the lists; one
\* with exactly MIN_HISTORY bars that passes the other filters is in the
\* result list.
C8_MinHistory ==
  Completed =>
    \A i \in 1..Len(KeysOf(json)) :
      LET t == KeysOf(json)[i]
          m == MetricsTable[json][i]
      IN /\ m.n = MIN_HISTORY - 1 =>
              t \notin (Range(Tickers(results)) \cup Range(Tickers(top10))
                          \cup Range(Tickers(buy4)))
         /\ (m.n = MIN_HISTORY /\ ~Filtered(m)) =>
              t \in Range(Tickers(results))

\* a map with one instrument of MIN_HISTORY - 1 bars, left out, and one of
\* MIN_HISTORY bars, in the result list
C8_Witness ==
  /\ Completed
  /\ \E i, j \in 1..Len(KeysOf(json)) :
       /\ MetricsTable[json][i].n = MIN_HISTORY - 1
       /\ ~Filtered(MetricsTable[json][i])
       /\ KeysOf(json)[i] \notin Range(Tickers(results))
       /\ MetricsTable[json][j].n = MIN_HISTORY
       /\ KeysOf(json)[j] \in Range(Tickers(results))

\* C9: a result is eligible exactly when its last close is above its MA20
\* and the regime is risk-on, or its trend is strong, or its ticker is on
\* the defensive allowlist; so a strong trend in a risk-off regime is
\* eligible.
C9_Eligibility ==
  Completed =>
    \A i \in 1..Len(results) :
      LET r == results[i]
      IN /\ r.eligible =
              (Gt(r.lastClose, MetricsFor(json, r.ticker).ma20)
               /\ (regime.riskOn \/ r.trendStrong
                     \/ r.ticker \in DefensiveETFs))
         /\ (r.trendStrong /\ ~regime.riskOn) => r.eligible

\* risk-off: an instrument off the allowlist is eligible by its trend, and
\* one off the allowlist without a strong trend is not, though above its MA20
C9_Witness ==
  /\ Completed
  /\ ~regime.riskOn
  /\ \E i, j \in 1..Len(results) :
       /\ results[i].trendStrong /\ results[i].eligible
       /\ results[i].ticker \notin DefensiveETFs
       /\ ~results[j].eligible
       /\ Gt(results[j].lastClose,
             MetricsFor(json, results[j].ticker).ma20)

FreshBuy4(ls) == IF ls.buy4.k = "arr" THEN ls.buy4.v ELSE <<>>

FreshStreaks(ls) ==
  IF ls.streaks.k = "obj"
  THEN [t \in {u \in DOMAIN ls.streaks.v : IsFinite(ls.streaks.v[u])} |->
          ls.streaks.v[t]]
  ELSE <<>>

\* the results of invocation p scored on the run-state read that way
FreshResults(p) ==
  SortOutcomes(Candidates(KeysOf(resp[p]), MetricsTable[resp[p]], 1,
    [riskOn |-> RegimeTable[resp[p]].riskOn,
     riskOnShort |-> RegimeTable[resp[p]].riskOnShort,
     lateMode |-> getLateMonthMode(today).lateMode,
     prevBuy4Set |-> Range(FreshBuy4(store)),
     streaks |-> FreshStreaks(store)]))

\* C11: whatever the stored items hold, an invocation that parsed a
\* well-formed map reaches the end of run, and its results are those of a
\* run on the stored state with the malformed parts read as empty.
C11_MalformedStateAsFresh ==
  [][\A p \in Procs :
       (pc[p] = "json" /\ pc'[p] # "json"
          /\ resp[p] \in Bodies /\ WellFormedMap(resp[p])) =>
         /\ statusText' = "Done"
         /\ results' \in FreshResults(p)]_vars

\* ---------------------------------------------------------------------
\* Storage that can refuse a write
\*
\* localStorage.setItem throws (QuotaExceededError, SecurityError) when the
\* browser refuses the write.  run calls it four times, in the order
\* td_streaks, td_lastDate, td_lastTop10, td_lastBuy4, with no try block
\* of its own around them: the first refusal lands in the catch of run.
\* ---------------------------------------------------------------------
\* localStorage after the first k of the four setItem calls
PartialSave(ls, now, newStreaks, top, buy, k) ==
  [ls EXCEPT !.streaks = IF k >= 1 THEN Item("obj", newStreaks) ELSE @,
             !.date = IF k >= 2 THEN now ELSE @,
             !.top10 = IF k >= 3 THEN Item("arr", top) ELSE @,
             !.buy4 = IF k >= 4 THEN Item("arr", buy) ELSE @]

\* setItem number k + 1 throws: the catch block of run
SaveThrows(p, st, eligibleList, b4, k) ==
  /\ store' = PartialSave(store, today, NewStreaks(st, b4),
                          Tickers(Slice(eligibleList, SHOW_N)),
                          Tickers(b4), k)
  /\ pc' = [pc EXCEPT ![p] = Ended(p)]
  /\ resp' = [resp EXCEPT ![p] = "none"]
  /\ statusText' = "JS error"
  /\ out' = "Crash"
  /\ UNCHANGED <<today, ticks, file, runs, runLocals>>

SelectSaveThrows(p, st, eligibleList, k) ==
  SaveThrows(p, st, eligibleList,
             pickWithDiversification(eligibleList, BUY_N), k)

ScoreSaveThrows(p, body, st, pv, rg, lm, k) ==
  \E sorted \in SortOutcomes(Candidates(KeysOf(body), MetricsTable[body], 1,
                    [riskOn |-> rg.riskOn, riskOnShort |-> rg.riskOnShort,
                     lateMode |-> lm.lateMode,
                     prevBuy4Set |-> Range(pv.buy4), streaks |-> st])) :
    SelectSaveThrows(p, st, Filter(sorted, IsEligible), k)

\* the synchronous rest of run up to a setItem that throws
RunSaveThrows(p) ==
  /\ pc[p] = "json"
  /\ resp[p] \in Bodies
  /\ ~ThrowsTable[resp[p]]
  /\ \E k \in 0..3 :
       ScoreSaveThrows(p, resp[p], readStreaks(store), readPrevState(store),
                       RegimeTable[resp[p]], getLateMonthMode(today), k)

NextWriteFail ==
  \/ Next
  \/ \E p \in Procs : RunSaveThrows(p)

SpecWriteFail == Init /\ [][NextWriteFail]_vars

\* C12: the step that ends the synchronous part of run either leaves the
\* four stored items as they were or replaces all four by those of this
\* run, also when a write is refused.
C12_AtomicSave ==
  [][\A p \in Procs :
       (pc[p] = "json" /\ pc'[p] # "json") =>
         \/ store' = store
         \/ /\ statusText' = "Done"
            /\ store'.streaks = Item("obj", NewStreaks(streaks', buy4'))
            /\ store'.date = today
            /\ store'.top10 = Item("arr", Tickers(top10'))
            /\ store'.buy4 = Item("arr", Tickers(buy4'))]_vars

\* C13: an invocation reads the stored run-state and replaces it in one
\* step, whatever other invocation is suspended meanwhile: the step that
\* completes a run reads the state as stored at that moment and leaves all
\* four items as written by this run alone.
C13_WholeRunWrites ==
  [][\A p \in Procs :
       Completes(p) =>
         /\ streaks' = readStreaks(store)
         /\ prev' = readPrevState(store)
         /\ store' = [streaks |-> Item("obj", NewStreaks(streaks', buy4')),
                      date |-> today,
                      top10 |-> Item("arr", Tickers(top10')),
                      buy4 |-> Item("arr", Tickers(buy4'))]]_vars

\* the timer's invocation is still suspended at the fetch or the parse
\* while the click's invocation, which overlapped it, has saved its picks
C13_Witness ==
  /\ pc["auto"] \in {"fetch", "json"}
  /\ statusText = "Done"
  /\ Completed
  /\ buy4 # <<>>
  /\ store.buy4 = Item("arr", Tickers(buy4))
  /\ store.streaks = Item("obj", NewStreaks(streaks, buy4))

\* C14: after a completed run every ticker of the buy list is in the top
\* list that is shown and saved.
C14_BuySubsetOfTop ==
  Completed =>
    /\ Range(Tickers(buy4)) \subseteq Range(Tickers(top10))
    /\ Range(store.buy4.v) \subseteq Range(store.top10.v)

\* every field of every bar of the map is a finite number
FiniteBars(tickers) ==
  \A i \in 1..Len(tickers) :
    \A k \in 1..Len(tickers[i].rows) :
      /\ tickers[i].rows[k] # NullRow
      /\ \A j \in 1..6 : IsFinite(tickers[i].rows[k][j])

FiniteBarsTable == [b \in Bodies |-> FiniteBars(TickersOf(b))]

FiniteOrNull(x) == x = Null \/ IsFinite(x)

\* C15: when all bars hold finite numbers, every indicator field and the
\* score of every result is a finite number or null.
C15_FiniteIndicators ==
  (Completed /\ FiniteBarsTable[json]
     /\ \A t \in DOMAIN streaks : IsFinite(streaks[t])) =>
    \A i \in 1..Len(results) :
      /\ FiniteOrNull(results[i].r20)
      /\ FiniteOrNull(results[i].r60)
      /\ FiniteOrNull(results[i].vol20)
      /\ FiniteOrNull(results[i].atr14p)
      /\ FiniteOrNull(results[i].volSurge)
      /\ FiniteOrNull(results[i].rs60)
      /\ FiniteOrNull(results[i].score)

\* C16: an invocation that parsed a map ends with the status "Done", and
\* every instrument whose own series has no defect and passes the filters
\* is in the result list, whatever the series of the other instruments.
C16_LocalProblems ==
  [][\A p \in Procs :
       (pc[p] = "json" /\ pc'[p] # "json" /\ resp[p] \in Bodies) =>
         /\ statusText' = "Done"
         /\ \A i \in 1..Len(KeysOf(resp[p])) :
              (~MapThrows(TickersOf(resp[p])[i].rows)
                 /\ ~Skipped(MetricsTable[resp[p]][i])) =>
                KeysOf(resp[p])[i] \in Range(Tickers(results'))]_vars

\* the scoring context of the last completed run
RunCtx ==
  [riskOn |-> regime.riskOn, riskOnShort |-> regime.riskOnShort,
   lateMode |-> late.lateMode, prevBuy4Set |-> Range(prev.buy4),
   streaks |-> streaks]

\* min(0.06, 0.04 * (volSurge - 1)) when volSurge > 1, else 0
SurgeAmount(volSurge) ==
  IF volSurge # Null /\ Gt(volSurge, SCALE)
  THEN MathMin(Pct(6), Mul(Pct(4), Sub(volSurge, SCALE)))
  ELSE 0

\* the score of r up to the volume-surge step
ScoreBeforeSurge(r) ==
  RelStrength(
    ShortRegime(
      StreakPenalty(BaseScore(r.r20, r.r60, r.vol20, r.trendStrong, RunCtx),
                    StreakOf(streaks, r.ticker)),
      regime.riskOnShort),
    r.rs60)

\* the final score r would have with its volume surge unavailable
ScoreWithoutSurge(r) ==
  ScoreOf(r.ticker, r.r20, r.r60, r.vol20, r.trendStrong, r.atr14p, Null,
          r.rs60, RunCtx)

\* C17 as stated: the final score of a result exceeds the score it would
\* have without its volume surge by min(0.06, 0.04 * (volSurge - 1)) when
\* volSurge > 1, and by nothing otherwise.
C17_SurgeInFinalScore ==
  Completed =>
    \A i \in 1..Len(results) :
      IsFinite(results[i].score) =>
        results[i].score - ScoreWithoutSurge(results[i])
          = SurgeAmount(results[i].volSurge)

\* C17, amended: the volume-surge step adds min(0.06, 0.04 * (volSurge - 1))
\* to the score so far when volSurge > 1 and nothing otherwise; the ATR
\* scaling that follows multiplies the sum, so that in the final score the
\* surge counts for a positive amount that is at most that bonus.
C17_SurgeBeforeAtrScale ==
  Completed =>
    \A i \in 1..Len(results) :
      IsFinite(results[i].score) =>
        /\ results[i].score
             = LateBonus(AtrScale(Add(ScoreBeforeSurge(results[i]),
                                      SurgeAmount(results[i].volSurge)),
                                  results[i].atr14p),
                         results[i].ticker, RunCtx)
        /\ IF SurgeAmount(results[i].volSurge) > 0
           THEN /\ results[i].score > ScoreWithoutSurge(results[i])
                /\ results[i].score - ScoreWithoutSurge(results[i])
                     <= SurgeAmount(results[i].volSurge)
           ELSE results[i].score = ScoreWithoutSurge(results[i])

\* risk-on, not late in the month: a result with volSurge = 1.5 gets the
\* bonus 0.02 at the surge step and less than that in its final score
C17_Witness ==
  /\ Completed
  /\ regime.riskOn
  /\ ~late.lateMode
  /\ \E i \in 1..Len(results) :
       /\ results[i].volSurge = (3 * SCALE) \div 2
       /\ SurgeAmount(results[i].volSurge) = Pct(2)
       /\ IsFinite(results[i].score)
       /\ results[i].score - ScoreWithoutSurge(results[i]) \in 1..(Pct(2) - 1)

\* ---------------------------------------------------------------------
\* The calendar gate on every date
\*
\* The page is opened on the first day of a common or a leap year and run
\* once a day: each step is a midnight followed by the getLateMonthMode of
\* a run.
\* ---------------------------------------------------------------------
YearStarts == {[m |-> 1, d |-> 1, leap |-> lp] : lp \in BOOLEAN}

InitCalendar ==
  /\ today \in YearStarts
  /\ late = getLateMonthMode(today)
  /\ ticks = 0
  /\ store = FreshStore
  /\ pc = [p \in Procs |-> IF p = "auto" THEN "timer" ELSE "idle"]
  /\ file = "nodata"
  /\ resp = [p \in Procs |-> "none"]
  /\ runs = 0
  /\ statusText = ""
  /\ out = ""
  /\ json = "none"
  /\ streaks = <<>>
  /\ prev = [top10 |-> <<>>, buy4 |-> <<>>]
  /\ regime = FailOpen
  /\ results = <<>>
  /\ top10 = <<>>
  /\ buy4 = <<>>

DayPasses ==
  /\ today' = NextDay(today)
  /\ late' = getLateMonthMode(today')
  /\ UNCHANGED <<ticks, store, pc, file, resp, runs, statusText, out, json,
                 streaks, prev, regime, results, top10, buy4>>

SpecCalendar == InitCalendar /\ [][DayPasses]_vars

C19_LastSevenDays ==
  late.lateMode = (today.d >= DaysInMonthOf(today) - 6)

\* the last w single-day returns close[i] / close[i - 1] - 1 of a series
\* of more than w closes, oldest first
LastReturns(closes, w) ==
  [k \in 1..w |->
     Sub(Div(closes[Len(closes) - w + k], closes[Len(closes) - w + k - 1]),
         SCALE)]

\* the population standard deviation of the last 20 single-day returns of
\* every series of a map that has them
Vol20Of(tickers) ==
  [i \in 1..Len(tickers) |->
     IF MapThrows(tickers[i].rows) \/ Len(tickers[i].rows) <= 20 THEN Null
     ELSE stdev(LastReturns(Column(tickers[i].rows, 4), 20))]

Vol20Table == [b \in Bodies |-> Vol20Of(TickersOf(b))]

\* C20: the vol20 of every result is the population standard deviation of
\* the last 20 single-day returns of its instrument.
C20_Vol20Window ==
  Completed =>
    \A i \in 1..Len(results) :
      results[i].vol20 = Vol20Table[json][IndexOf(json, results[i].ticker)]

\* ---------------------------------------------------------------------
\* The selector on every ranked list
\*
\* pickWithDiversification is a function of the ranked eligible list and
\* the target n.  The lists are the arrangements of up to MaxList distinct
\* candidates of a pool: two with the same full return series, one with an
\* uncorrelated series, one with a flat (zero-variance) series, one whose
\* series is one return short of CORR_LOOKBACK and one without a series.
\* results holds the list, runs the target and buy4 the returned picks.
\* ---------------------------------------------------------------------
MaxList == 4

SeriesUp == MetricsTable["bull"][3].retSeries

SeriesAlt == MetricsTable["bull"][5].retSeries

SeriesFlat == MetricsTable["nospy"][5].retSeries

SeriesShort == SubSeq(MetricsTable["bear"][2].retSeries, 1, CORR_LOOKBACK - 1)

Pool ==
  { [ticker |-> "AAA", retSeries |-> SeriesUp],
    [ticker |-> "BBB", retSeries |-> SeriesUp],
    [ticker |-> "CCC", retSeries |-> SeriesAlt],
    [ticker |-> "FFF", retSeries |-> SeriesFlat],
    [ticker |-> "GGG", retSeries |-> SeriesShort],
    [ticker |-> "HHH", retSeries |-> <<>>] }

RankedLists ==
  UNION { {s \in [1..k -> Pool] : \A i, j \in 1..k : i # j => s[i] # s[j]} :
          k \in 0..MaxList }

InitSelector ==
  /\ results \in RankedLists
  /\ buy4 = <<>>
  /\ runs = 0
  /\ statusText = ""
  /\ today = StartDate
  /\ late = getLateMonthMode(StartDate)
  /\ ticks = 0
  /\ store = FreshStore
  /\ pc = [p \in Procs |-> IF p = "auto" THEN "timer" ELSE "idle"]
  /\ file = "nodata"
  /\ resp = [p \in Procs |-> "none"]
  /\ out = ""
  /\ json = "none"
  /\ streaks = <<>>
  /\ prev = [top10 |-> <<>>, buy4 |-> <<>>]
  /\ regime = FailOpen
  /\ top10 = <<>>

\* a call pickWithDiversification(results, n)
Pick(n) ==
  /\ buy4' = pickWithDiversification(results, n)
  /\ runs' = n
  /\ statusText' = "picked"
  /\ UNCHANGED <<today, ticks, store, pc, file, resp, out, json, streaks,
                 prev, regime, late, results, top10>>

NextSelector == \E n \in 0..MaxTarget : Pick(n)

SpecSelector == InitSelector /\ [][NextSelector]_vars

Picked == statusText = "picked"

\* the picks of the first loop of the call
FirstOfCall == FirstPass(results, runs, 1, <<>>)

FullSeries(cand) == Len(cand.retSeries) >= CORR_LOOKBACK

\* C21: a candidate whose return series is missing or shorter than
\* CORR_LOOKBACK is in no first-pass pick; in the returned picks it stands
\* only behind all first-pass picks, and only when the first pass accepted
\* fewer than n.
C21_ShortSeriesOnlyTopUp ==
  Picked =>
    /\ \A j \in 1..Len(FirstOfCall) : FullSeries(FirstOfCall[j])
    /\ \A j \in 1..Len(buy4) :
         ~FullSeries(buy4[j]) =>
           /\ Len(FirstOfCall) < runs
           /\ j > Len(FirstOfCall)
           /\ \A k \in 1..Len(FirstOfCall) : buy4[k] = FirstOfCall[k]

\* the best-ranked candidate has a short series: it was passed over by the
\* first loop and added by the top-up behind a pick ranked below it
C21_Witness ==
  /\ Picked
  /\ Len(results) >= 2
  /\ ~FullSeries(results[1])
  /\ Len(FirstOfCall) >= 1
  /\ \E j \in 2..Len(buy4) : buy4[j] = results[1] /\ j > Len(FirstOfCall)

\* the picks the first loop holds when it comes to results[i]
PicksBefore(i) == FirstPass(SubSeq(results, 1, i - 1), runs, 1, <<>>)

\* results[i] was examined by the first loop and not accepted
RejectedAt(i) ==
  /\ FullSeries(results[i])
  /\ Len(PicksBefore(i)) < runs
  /\ \A k \in 1..Len(FirstOfCall) : FirstOfCall[k] # results[i]

\* the correlation of the pair is defined and strictly above CORR_MAX
Blocks(a, b) ==
  LET c == corrOf(a.retSeries, b.retSeries)
  IN IsFinite(c) /\ c > CORR_MAX

\* a zero denominator or fewer than 10 aligned points
UndefinedPair(a, b) ==
  \/ Len(a.retSeries) < 10
  \/ Len(b.retSeries) < 10
  \/ a.retSeries = SeriesFlat
  \/ b.retSeries = SeriesFlat

\* C22: the correlation of a pair with a zero-variance series or with fewer
\* than 10 aligned points is not finite, and the first loop rejects a
\* candidate exactly when an accepted pick has a finite correlation with it
\* strictly above CORR_MAX, so that an undefined pair blocks nothing.
C22_UndefinedCorrNeverBlocks ==
  Picked =>
    \A i \in 1..Len(results) :
      /\ \A j \in 1..Len(results) :
           UndefinedPair(results[i], results[j]) =>
             ~IsFinite(corrOf(results[i].retSeries, results[j].retSeries))
      /\ (FullSeries(results[i]) /\ Len(PicksBefore(i)) < runs) =>
           (RejectedAt(i) <=>
              \E k \in 1..Len(PicksBefore(i)) :
                 Blocks(results[i], PicksBefore(i)[k]))

\* the flat series is accepted behind a pick although its correlation with
\* it is undefined, and the copy of that pick is rejected
C22_Witness ==
  /\ Picked
  /\ \E k \in 2..Len(FirstOfCall) : FirstOfCall[k].retSeries = SeriesFlat
  /\ \E i \in 1..Len(results) :
       /\ RejectedAt(i)
       /\ \E k \in 1..Len(PicksBefore(i)) :
            Blocks(results[i], PicksBefore(i)[k])

\* the ranks of the candidates with a full-length return series
FullRanks == {i \in 1..Len(results) : FullSeries(results[i])}

\* C29: on a ranked list of distinct tickers the returned picks hold no
\* ticker twice, hold only members of the list, are at most n, and for
\* n >= 1 hold the best-ranked candidate with a full-length return series.
C29_PicksWellFormed ==
  Picked =>
    /\ \A i, j \in 1..Len(buy4) : i # j => buy4[i].ticker # buy4[j].ticker
    /\ \A i \in 1..Len(buy4) : \E k \in 1..Len(results) : results[k] = buy4[i]
    /\ Len(buy4) <= runs
    /\ (runs >= 1 /\ FullRanks # {}) =>
         \E i \in 1..Len(buy4) :
           \E k \in FullRanks :
             /\ buy4[i] = results[k]
             /\ \A m \in FullRanks : k <= m

\* n picks, the top-up among them, of a list whose best-ranked candidate
\* has no full-length series
C29_Witness ==
  /\ Picked
  /\ runs >= 3
  /\ Len(buy4) = runs
  /\ Len(FirstOfCall) < runs
  /\ FullRanks # {}
  /\ 1 \notin FullRanks

\* the filters of the loop body other than the fading filter
PassesOtherFilters(m) ==
  /\ m.n >= MIN_HISTORY
  /\ IsFinite(m.lastClose)
  /\ m.ma20 # Null /\ m.ma50 # Null /\ m.ma200 # Null
  /\ m.r10 # Null /\ m.r20 # Null /\ m.r60 # Null
  /\ IsFinite(m.vol20) /\ m.vol20 > 0

InAnyList(t) ==
  t \in (Range(Tickers(results)) \cup Range(Tickers(top10))
           \cup Range(Tickers(buy4)))

\* C23: an instrument with a positive 20-day return and a 10-day return
\* below 35% of it is in none of the lists; an instrument with a 20-day
\* return <= 0, or a 10-day return >= 0.35 times the 20-day return, that
\* passes the other filters is in the result list.
C23_FadingGuard ==
  Completed =>
    \A i \in 1..Len(KeysOf(json)) :
      LET t == KeysOf(json)[i]
          m == MetricsTable[json][i]
      IN m.n >= 21 =>
           /\ (Gt(m.r20, 0) /\ Lt(m.r10, Mul(Pct(35), m.r20))) => ~InAnyList(t)
           /\ (PassesOtherFilters(m)
                 /\ (Le(m.r20, 0) \/ Le(Mul(Pct(35), m.r20), m.r10))) =>
                t \in Range(Tickers(results))

\* a map with a fading instrument, left out, and a rising instrument whose
\* 10-day return is above 35% of its 20-day return, in the result list
C23_Witness ==
  /\ Completed
  /\ \E i, j \in 1..Len(KeysOf(json)) :
       LET a == MetricsTable[json][i]
           b == MetricsTable[json][j]
       IN /\ PassesOtherFilters(a) /\ PassesOtherFilters(b)
          /\ Gt(a.r20, 0) /\ Lt(a.r10, Mul(Pct(35), a.r20))
          /\ ~InAnyList(KeysOf(json)[i])
          /\ Gt(b.r20, 0) /\ Le(Mul(Pct(35), b.r20), b.r10)
          /\ KeysOf(json)[j] \in Range(Tickers(results))

\* two results of one run that differ in nothing the score depends on but
\* ATR%
DifferOnlyInAtr(a, b) ==
  /\ a.ticker # b.ticker
  /\ a.r20 = b.r20 /\ a.r60 = b.r60 /\ a.vol20 = b.vol20
  /\ a.trendStrong = b.trendStrong
  /\ a.volSurge = b.volSurge /\ a.rs60 = b.rs60
  /\ StreakOf(streaks, a.ticker) = StreakOf(streaks, b.ticker)
  /\ (a.ticker \in Range(prev.buy4)) = (b.ticker \in Range(prev.buy4))
  /\ a.atr14p # Null /\ b.atr14p # Null

\* C24: of two results that differ only in ATR%, the one with the larger
\* ATR% has no strictly higher final score.
C24_AtrOnlyLowers ==
  Completed =>
    \A i, j \in 1..Len(results) :
      (DifferOnlyInAtr(results[i], results[j])
         /\ Gt(results[i].atr14p, results[j].atr14p)) =>
        ~Gt(results[i].score, results[j].score)

\* two results of one run that differ in nothing the score depends on but
\* the stored streak
DifferOnlyInStreak(a, b) ==
  /\ a.ticker # b.ticker
  /\ a.r20 = b.r20 /\ a.r60 = b.r60 /\ a.vol20 = b.vol20
  /\ a.trendStrong = b.trendStrong
  /\ a.volSurge = b.volSurge /\ a.rs60 = b.rs60 /\ a.atr14p = b.atr14p
  /\ late.lateMode =>
       ((a.ticker \in Range(prev.buy4)) = (b.ticker \in Range(prev.buy4)))

\* the final score r would have without a stored streak
ScoreWithoutStreak(r) ==
  ScoreOf(r.ticker, r.r20, r.r60, r.vol20, r.trendStrong, r.atr14p,
          r.volSurge, r.rs60, [RunCtx EXCEPT !.streaks = <<>>])

\* C25: a stored numeric streak s lowers the score by 0.01 * min(5, s) at
\* the penalty step and by no more than 0.05 in the final score; of two
\* results that differ only in the stored streak the one with the larger
\* streak has no higher score, and with both streaks at 5 or more the
\* scores are equal.
C25_StalenessPenalty ==
  Completed =>
    \A i \in 1..Len(results) :
      LET r == results[i]
          s == StreakOf(streaks, r.ticker)
          base == BaseScore(r.r20, r.r60, r.vol20, r.trendStrong, RunCtx)
      IN (s # NonNumeric /\ IsFinite(r.score)) =>
           /\ base - StreakPenalty(base, s) = (IF s < 5 THEN s ELSE 5) * Pct(1)
           /\ ScoreWithoutStreak(r) - r.score <= Pct(5)
           /\ ScoreWithoutStreak(r) - r.score >= 0
           /\ \A j \in 1..Len(results) :
                LET q == results[j]
                    u == StreakOf(streaks, q.ticker)
                IN (DifferOnlyInStreak(r, q) /\ u # NonNumeric
                      /\ IsFinite(q.score)) =>
                     /\ s <= u => r.score >= q.score
                     /\ (s >= 5 /\ u >= 5) => r.score = q.score

\* three results alike but for stored streaks of 0, 5 and 7: the last two
\* have the same score, below the first
C25_Witness ==
  /\ Completed
  /\ \E i, j, k \in 1..Len(results) :
       /\ DifferOnlyInStreak(results[i], results[j])
       /\ DifferOnlyInStreak(results[i], results[k])
       /\ StreakOf(streaks, results[i].ticker) = 5
       /\ StreakOf(streaks, results[j].ticker) = 7
       /\ StreakOf(streaks, results[k].ticker) = 0
       /\ results[i].score = results[j].score
       /\ results[k].score > results[i].score

\* C26: the return series kept for every result holds exactly CORR_LOOKBACK
\* daily returns, the last CORR_LOOKBACK of its instrument, oldest first.
C26_RetSeriesLength ==
  Completed =>
    \A i \in 1..Len(results) :
      /\ Len(results[i].retSeries) = CORR_LOOKBACK
      /\ \A k \in 1..CORR_LOOKBACK :
           results[i].retSeries[k]
             = MetricsFor(json, results[i].ticker).retSeries[k + 1]

\* invocation p ends in this step on a failed load or on an exception
\* thrown before the selection has finished
FailsEarly(p) ==
  /\ pc'[p] = Ended(p)
  /\ \/ pc[p] = "fetch"
     \/ pc[p] = "json" /\ resp[p] = "badjson"
     \/ pc[p] = "json" /\ resp[p] \in Bodies /\ ThrowsTable[resp[p]]

\* C27: a run that ends on a failed load, on invalid JSON or on a row of
\* the wrong schema leaves the stored streaks, date, top list and buy list
\* as they were and ends with an error status and an error message.
C27_FailureKeepsState ==
  [][\A p \in Procs :
       FailsEarly(p) =>
         /\ store' = store
         /\ statusText' \in {"Could not load data/latest.json", "JS error"}
         /\ out' \in {"Fetch failed", "Crash"}]_vars

\* a run completed and saved its state today, and the next run crashed:
\* the saved state is still there
C27_Witness ==
  /\ statusText = "JS error"
  /\ runs = 2
  /\ store.date = today
  /\ store.buy4.k = "arr" /\ Len(store.buy4.v) > 0
  /\ store.streaks.k = "obj" /\ DOMAIN store.streaks.v # {}

\* ---------------------------------------------------------------------
\* Runs from an empty run-state
\* ---------------------------------------------------------------------
InitFresh == Init /\ store = FreshStore

SpecFresh == InitFresh /\ [][Next]_vars

\* C28: from an empty run-state on, once a run has saved, the tickers with
\* a stored streak are the tickers of the stored buy list and every stored
\* streak is a whole number from 1 up.
C28_StreaksMatchBuyList ==
  store # FreshStore =>
    /\ store.streaks.k = "obj"
    /\ store.buy4.k = "arr"
    /\ DOMAIN store.streaks.v = Range(store.buy4.v)
    /\ \A t \in DOMAIN store.streaks.v :
         /\ store.streaks.v[t] \in Nat
         /\ store.streaks.v[t] >= 1
         /\ store.streaks.v[t] <= runs

\* the second completed run: a ticker picked twice has the streak 2, one
\* picked for the first time has 1, and one dropped has no entry
C28_Witness ==
  /\ statusText = "Done"
  /\ runs = 2
  /\ \E t, u \in DOMAIN store.streaks.v :
       store.streaks.v[t] = 2 /\ store.streaks.v[u] = 1
  /\ \E t \in Range(Tickers(results)) : t \notin DOMAIN store.streaks.v

\* invocation p completes in this step, on the date of the last save and
\* on the data of the run that made it
RepeatsRun(p) ==
  /\ Completes(p)
  /\ store.date = today
  /\ json = resp[p]

====
